---- MODULE Spec2Model ----
(***************************************************************************)
(* Sahana Eden data collection templates (modules/s3db/dc.py):            *)
(* the three on-accept hooks of DataCollectionTemplateModel that mirror    *)
(* templates, questions and question translations onto the dynamic tables  *)
(* (s3_table, s3_field) and onto the per-language translation files.       *)
(*                                                                         *)
(* Every hook runs inside the request that saved the record.  A request    *)
(* is a process p; each database statement or file access of a hook is    *)
(* one step, so that requests of different sessions interleave between     *)
(* statements.  The hooks take no lock.                                    *)
(***************************************************************************)
EXTENDS Integers, Sequences, FiniteSets, TLC

VARIABLES
    deployment_settings,  \* dc_mobile_data, dc_mobile_inserts
    dc_template,          \* id -> row (id 0 is None)
    s3_table,             \* sequence of rows, the id is the index
    s3_field,             \* sequence of rows, the id is the index
    dc_question,          \* id -> row
    dc_question_l10n,     \* id -> row
    languages,            \* language code -> languages/<code>.py
    uuid_time,            \* the timestamp the next uuid1() is made of
    proc,                 \* request -> position and local variables of its hook
    ops                   \* number of requests made so far

vars == <<deployment_settings, dc_template, s3_table, s3_field, dc_question,
          dc_question_l10n, languages, uuid_time, proc, ops>>

schema_vars == <<dc_template, s3_table, s3_field, dc_question, uuid_time>>
l10n_vars == <<dc_question_l10n, languages>>

(***************************************************************************)
(* Bounds of the model.                                                    *)
(***************************************************************************)
MaxTemplates == 1
MaxQuestions == 2
MaxL10n == 2
MaxProcs == 2
MaxOps == 3
MaxLen == 2

QuestionIds == 1..MaxQuestions
Procs == 1..MaxProcs

(***************************************************************************)
(* Python and JSON values.  A "json" column holds any JSON value; None,    *)
(* strings, numbers and lists are told apart by their kind.               *)
(***************************************************************************)
None == [kind |-> "None"]
JStr(s) == [kind |-> "str", s |-> s]
JNum(n) == [kind |-> "num", n |-> n]
JList(items) == [kind |-> "list", items |-> items]
\* current.T(message): a lazy translation, resolved when it is rendered
T(message) == [kind |-> "lazyT", m |-> message]

IsList(v) == v.kind = "list"

(***************************************************************************)
(* Inputs of the forms.                                                    *)
(***************************************************************************)
TemplateNames == {"Survey"}
QuestionNames == {"Age"}
Tooltips == {"tip"}
\* field_type codes: type_opts offers 1, 2, 4, 5, 6, 7 and 9; the hook also
\* maps 8, and 3 stands for a code it does not map
FieldTypes == {1, 2, 3, 4, 5, 6, 7, 8, 9}
OptionValues == {JStr("a"), JStr("1"), JNum(1)}
QuestionOptions == {None, JList(<<JStr("a"), JNum(1)>>)}

QuestionForms ==
    [name : QuestionNames, field_type : FieldTypes, options : QuestionOptions,
     require_not_empty : BOOLEAN, comments : Tooltips]
\* the forms that sessions racing each other submit
RacingForms ==
    {form \in QuestionForms :
        /\ form.field_type \in {1, 6, 9} /\ ~form.require_not_empty
        /\ form.options = None <=> form.field_type # 6}

(***************************************************************************)
(* Requests.  A free request slot is idle or holds a finished hook.        *)
(***************************************************************************)
Idle == [pc |-> "idle", hook |-> ""]
Free(p) == proc[p].pc \in {"idle", "done"}
Running(p) == ~Free(p)
\* a new request takes the first free slot
Accepts(p) == Free(p) /\ \A other \in 1..(p - 1) : Running(other)
Goto(p, locals) == proc' = [proc EXCEPT ![p] = locals]
\* the locals r with the names of s set to the values of s
With(r, s) ==
    [k \in DOMAIN r \cup DOMAIN s |-> IF k \in DOMAIN s THEN s[k] ELSE r[k]]
\* the hook returns after the statement `at`, or an exception leaves it there
Return(p, at) ==
    Goto(p, [pc |-> "done", hook |-> proc[p].hook, at |-> at, raised |-> "",
             session_error |-> ""])
Raise(p, at, exception) ==
    Goto(p, [pc |-> "done", hook |-> proc[p].hook, at |-> at, raised |-> exception,
             session_error |-> ""])
Returned(p, at) == proc[p].pc = "done" /\ proc[p].at = at /\ proc[p].raised = ""

(***************************************************************************)
(* dc_template: saving a new template, then dc_template_create_onaccept.   *)
(***************************************************************************)
CreateTemplate(p) ==
    /\ Accepts(p)
    /\ ops < MaxOps
    /\ Len(dc_template) < MaxTemplates
    /\ \E name \in TemplateNames :
        /\ dc_template' = Append(dc_template, [name |-> name, table_id |-> 0])
        /\ Goto(p, [pc |-> "t_insert_table", hook |-> "dc_template",
                    form_vars |-> [id |-> Len(dc_template) + 1, name |-> name]])
    /\ ops' = ops + 1
    /\ UNCHANGED <<deployment_settings, s3_table, s3_field, dc_question,
                   uuid_time, l10n_vars>>

\* the hook called once more with the form of a template that exists
CallTemplateOnaccept(p) ==
    /\ Accepts(p)
    /\ ops < MaxOps
    /\ \E id \in 1..Len(dc_template) :
        Goto(p, [pc |-> "t_insert_table", hook |-> "dc_template",
                 form_vars |-> [id |-> id, name |-> dc_template[id].name]])
    /\ ops' = ops + 1
    /\ UNCHANGED <<deployment_settings, schema_vars, l10n_vars>>

TableSettings ==
    IF deployment_settings.dc_mobile_inserts
    THEN JStr("")
    ELSE [insertable |-> FALSE]

InsertTable(p) ==
    /\ proc[p].pc = "t_insert_table"
    /\ s3_table' = Append(s3_table,
                          [title |-> proc[p].form_vars.name,
                           mobile_data |-> deployment_settings.dc_mobile_data,
                           settings |-> TableSettings])
    /\ Goto(p, With(proc[p], [pc |-> "t_insert_field",
                              table_id |-> Len(s3_table) + 1]))
    /\ UNCHANGED <<deployment_settings, dc_template, s3_field, dc_question,
                   uuid_time, l10n_vars, ops>>

\* as ResponseIdField, not required
ResponseIdFieldOptional(table_id) ==
    [table_id |-> table_id,
     name |-> "response_id",
     field_type |-> "reference dc_response",
     require_not_empty |-> FALSE,
     component_key |-> TRUE,
     component_alias |-> "answer",
     component_tab |-> TRUE,
     master |-> "dc_response",
     settings |-> [component_multiple |-> FALSE]]

ResponseIdField(table_id) ==
    [table_id |-> table_id,
     name |-> "response_id",
     field_type |-> "reference dc_response",
     require_not_empty |-> TRUE,
     component_key |-> TRUE,
     component_alias |-> "answer",
     component_tab |-> TRUE,
     master |-> "dc_response",
     settings |-> [component_multiple |-> FALSE]]

InsertResponseIdField(p) ==
    /\ proc[p].pc = "t_insert_field"
    /\ s3_field' = Append(s3_field, ResponseIdField(proc[p].table_id))
    /\ Goto(p, With(proc[p], [pc |-> "t_update_template"]))
    /\ UNCHANGED <<deployment_settings, dc_template, s3_table, dc_question,
                   uuid_time, l10n_vars, ops>>

\* db(db.dc_template.id == template_id).update(table_id=table_id)
UpdateTemplate(p) ==
    /\ proc[p].pc = "t_update_template"
    /\ dc_template' =
         [id \in DOMAIN dc_template |->
            IF id = proc[p].form_vars.id
            THEN With(dc_template[id], [table_id |-> proc[p].table_id])
            ELSE dc_template[id]]
    /\ Return(p, "t_update_template")
    /\ UNCHANGED <<deployment_settings, s3_table, s3_field, dc_question,
                   uuid_time, l10n_vars, ops>>

(***************************************************************************)
(* dc_question: saving a question, then dc_question_onaccept.              *)
(***************************************************************************)
SaveQuestion(p, forms) ==
    /\ Accepts(p)
    /\ ops < MaxOps
    /\ \E form \in forms :
        \/ \* create
           /\ Len(dc_question) < MaxQuestions
           /\ \E template_id \in 1..Len(dc_template) :
                dc_question' = Append(dc_question,
                    With(form, [template_id |-> template_id, field_id |-> 0]))
           /\ Goto(p, [pc |-> "q_select_question", hook |-> "dc_question",
                       form_vars |-> [id |-> Len(dc_question) + 1]])
        \/ \* update: field_id and template_id are not writable
           \E id \in 1..Len(dc_question) :
              /\ dc_question' = [dc_question EXCEPT
                                   ![id] = With(dc_question[id], form)]
              /\ Goto(p, [pc |-> "q_select_question", hook |-> "dc_question",
                          form_vars |-> [id |-> id]])
    /\ ops' = ops + 1
    /\ UNCHANGED <<deployment_settings, dc_template, s3_table, s3_field,
                   uuid_time, l10n_vars>>

\* as MapFieldType, with the Grid mapped to a string instead of returning
MapFieldTypeGridMapped(question) ==
    LET field_type == question.field_type IN
    CASE field_type \in {1, 9} ->
            [exit |-> "", field_type |-> "string", options |-> None]
      [] field_type = 2 -> [exit |-> "", field_type |-> "integer", options |-> None]
      [] field_type = 4 -> [exit |-> "", field_type |-> "boolean", options |-> None]
      [] field_type = 5 -> [exit |-> "", field_type |-> "string",
                            options |-> JList(<<T("Yes"), T("No"), T("Don't Know")>>)]
      [] field_type = 6 -> [exit |-> "", field_type |-> "string",
                            options |-> question.options]
      [] field_type = 7 -> [exit |-> "", field_type |-> "date", options |-> None]
      [] field_type = 8 -> [exit |-> "", field_type |-> "datetime", options |-> None]
      [] OTHER -> [exit |-> "raise", raised |-> "NotImplementedError"]

\* as MapFieldType, with 8 mapped to a date
MapFieldTypeDatetimeAsDate(question) ==
    LET field_type == question.field_type IN
    CASE field_type = 1 -> [exit |-> "", field_type |-> "string", options |-> None]
      [] field_type = 2 -> [exit |-> "", field_type |-> "integer", options |-> None]
      [] field_type = 4 -> [exit |-> "", field_type |-> "boolean", options |-> None]
      [] field_type = 5 -> [exit |-> "", field_type |-> "string",
                            options |-> JList(<<T("Yes"), T("No"), T("Don't Know")>>)]
      [] field_type = 6 -> [exit |-> "", field_type |-> "string",
                            options |-> question.options]
      [] field_type = 7 -> [exit |-> "", field_type |-> "date", options |-> None]
      [] field_type = 8 -> [exit |-> "", field_type |-> "date", options |-> None]
      [] field_type = 9 -> [exit |-> "return"]
      [] OTHER -> [exit |-> "raise", raised |-> "NotImplementedError"]

\* as MapFieldType, with 5 keeping the question's options when it has some
MapFieldTypeOwnOptions(question) ==
    LET field_type == question.field_type IN
    CASE field_type = 1 -> [exit |-> "", field_type |-> "string", options |-> None]
      [] field_type = 2 -> [exit |-> "", field_type |-> "integer", options |-> None]
      [] field_type = 4 -> [exit |-> "", field_type |-> "boolean", options |-> None]
      [] field_type = 5 -> [exit |-> "", field_type |-> "string",
                            options |-> IF question.options # None
                                        THEN question.options
                                        ELSE JList(<<T("Yes"), T("No"),
                                                     T("Don't Know")>>)]
      [] field_type = 6 -> [exit |-> "", field_type |-> "string",
                            options |-> question.options]
      [] field_type = 7 -> [exit |-> "", field_type |-> "date", options |-> None]
      [] field_type = 8 -> [exit |-> "", field_type |-> "datetime", options |-> None]
      [] field_type = 9 -> [exit |-> "return"]
      [] OTHER -> [exit |-> "raise", raised |-> "NotImplementedError"]

\* as MapFieldType, with a string for every code the chain does not name
MapFieldTypeDefaultString(question) ==
    LET field_type == question.field_type IN
    CASE field_type = 1 -> [exit |-> "", field_type |-> "string", options |-> None]
      [] field_type = 2 -> [exit |-> "", field_type |-> "integer", options |-> None]
      [] field_type = 4 -> [exit |-> "", field_type |-> "boolean", options |-> None]
      [] field_type = 5 -> [exit |-> "", field_type |-> "string",
                            options |-> JList(<<T("Yes"), T("No"), T("Don't Know")>>)]
      [] field_type = 6 -> [exit |-> "", field_type |-> "string",
                            options |-> question.options]
      [] field_type = 7 -> [exit |-> "", field_type |-> "date", options |-> None]
      [] field_type = 8 -> [exit |-> "", field_type |-> "datetime", options |-> None]
      [] field_type = 9 -> [exit |-> "return"]
      [] OTHER -> [exit |-> "", field_type |-> "string", options |-> None]

\* the if/elif chain over question.field_type
MapFieldType(question) ==
    LET field_type == question.field_type IN
    CASE field_type = 1 -> [exit |-> "", field_type |-> "string", options |-> None]
      [] field_type = 2 -> [exit |-> "", field_type |-> "integer", options |-> None]
      [] field_type = 4 -> [exit |-> "", field_type |-> "boolean", options |-> None]
      [] field_type = 5 -> [exit |-> "", field_type |-> "string",
                            options |-> JList(<<T("Yes"), T("No"), T("Don't Know")>>)]
      [] field_type = 6 -> [exit |-> "", field_type |-> "string",
                            options |-> question.options]
      [] field_type = 7 -> [exit |-> "", field_type |-> "date", options |-> None]
      [] field_type = 8 -> [exit |-> "", field_type |-> "datetime", options |-> None]
      [] field_type = 9 -> [exit |-> "return"]
      [] OTHER -> [exit |-> "raise", raised |-> "NotImplementedError"]

\* as SelectQuestion, without the test of question.field_id
SelectQuestionAlwaysCreate(p) ==
    /\ proc[p].pc = "q_select_question"
    /\ LET question == With(dc_question[proc[p].form_vars.id],
                            [id |-> proc[p].form_vars.id])
           mapped == MapFieldType(question)
       IN  CASE mapped.exit = "return" -> Return(p, "q_grid")
             [] mapped.exit = "raise" -> Raise(p, "q_map_field_type", mapped.raised)
             [] OTHER ->
                  Goto(p, With(proc[p],
                       [pc |-> "q_select_template",
                        question |-> question,
                        field_type |-> mapped.field_type,
                        options |-> mapped.options]))
    /\ UNCHANGED <<deployment_settings, schema_vars, l10n_vars, ops>>

\* select the question, map its type, branch on question.field_id
SelectQuestion(p) ==
    /\ proc[p].pc = "q_select_question"
    /\ LET question == With(dc_question[proc[p].form_vars.id],
                            [id |-> proc[p].form_vars.id])
           mapped == MapFieldType(question)
       IN  CASE mapped.exit = "return" -> Return(p, "q_grid")
             [] mapped.exit = "raise" -> Raise(p, "q_map_field_type", mapped.raised)
             [] OTHER ->
                  Goto(p, With(proc[p],
                       [pc |-> IF question.field_id # 0
                               THEN "q_update_field"
                               ELSE "q_select_template",
                        question |-> question,
                        field_type |-> mapped.field_type,
                        options |-> mapped.options]))
    /\ UNCHANGED <<deployment_settings, schema_vars, l10n_vars, ops>>

\* as UpdateField, updating every field of the table of the question's field
UpdateFieldsOfTable(p) ==
    /\ proc[p].pc = "q_update_field"
    /\ LET question == proc[p].question IN
       s3_field' =
         [id \in DOMAIN s3_field |->
            IF s3_field[id].table_id = s3_field[question.field_id].table_id
            THEN With(s3_field[id],
                      [label |-> question.name,
                       field_type |-> proc[p].field_type,
                       options |-> proc[p].options,
                       require_not_empty |-> question.require_not_empty,
                       comments |-> question.comments])
            ELSE s3_field[id]]
    /\ Return(p, "q_update_field")
    /\ UNCHANGED <<deployment_settings, dc_template, s3_table, dc_question,
                   uuid_time, l10n_vars, ops>>

\* as UpdateField, leaving the options of the field when there are none to set
UpdateFieldKeepsOptions(p) ==
    /\ proc[p].pc = "q_update_field"
    /\ LET question == proc[p].question IN
       s3_field' =
         [id \in DOMAIN s3_field |->
            IF id = question.field_id
            THEN With(s3_field[id],
                      [label |-> question.name,
                       field_type |-> proc[p].field_type,
                       options |-> IF proc[p].options = None
                                   THEN s3_field[id].options
                                   ELSE proc[p].options,
                       require_not_empty |-> question.require_not_empty,
                       comments |-> question.comments])
            ELSE s3_field[id]]
    /\ Return(p, "q_update_field")
    /\ UNCHANGED <<deployment_settings, dc_template, s3_table, dc_question,
                   uuid_time, l10n_vars, ops>>

\* db(s3_field.id == field_id).update(label, field_type, options, ...)
UpdateField(p) ==
    /\ proc[p].pc = "q_update_field"
    /\ LET question == proc[p].question IN
       s3_field' =
         [id \in DOMAIN s3_field |->
            IF id = question.field_id
            THEN With(s3_field[id],
                      [label |-> question.name,
                       field_type |-> proc[p].field_type,
                       options |-> proc[p].options,
                       require_not_empty |-> question.require_not_empty,
                       comments |-> question.comments])
            ELSE s3_field[id]]
    /\ Return(p, "q_update_field")
    /\ UNCHANGED <<deployment_settings, dc_template, s3_table, dc_question,
                   uuid_time, l10n_vars, ops>>

\* select the table_id of the question's template
SelectTemplate(p) ==
    /\ proc[p].pc = "q_select_template"
    /\ Goto(p, With(proc[p],
                [pc |-> "q_insert_field",
                 template |->
                    [table_id |-> dc_template[proc[p].question.template_id].table_id]]))
    /\ UNCHANGED <<deployment_settings, schema_vars, l10n_vars, ops>>

\* str(uuid1()): the groups of a time-based UUID, joined by hyphens
Uuid1Groups(time) == <<ToString(time), "11e7", "node">>
RECURSIVE Join(_, _)
Join(groups, sep) ==
    IF Len(groups) = 0 THEN ""
    ELSE IF Len(groups) = 1 THEN groups[1]
    ELSE groups[1] \o sep \o Join(Tail(groups), sep)
\* as FieldName, made of the same UUID every time
FieldNameOfOneUuid(time) == "f" \o Join(Uuid1Groups(1), "_")

\* "f%s" % str(uuid1()).replace("-", "_")
FieldName(time) == "f" \o Join(Uuid1Groups(time), "_")

\* the row s3_field.insert is given for a question
QuestionField(table_id, name, question, field_type, options) ==
    [table_id |-> table_id,
     label |-> question.name,
     name |-> name,
     field_type |-> field_type,
     options |-> options,
     require_not_empty |-> question.require_not_empty,
     comments |-> question.comments]

InsertField(p) ==
    /\ proc[p].pc = "q_insert_field"
    /\ LET question == proc[p].question
           name == FieldName(uuid_time)
       IN  /\ s3_field' = Append(s3_field,
                 QuestionField(proc[p].template.table_id, name, question,
                               proc[p].field_type, proc[p].options))
           /\ Goto(p, With(proc[p], [pc |-> "q_update_record", name |-> name,
                                     field_id |-> Len(s3_field) + 1]))
    /\ uuid_time' = uuid_time + 1
    /\ UNCHANGED <<deployment_settings, dc_template, s3_table, dc_question,
                   l10n_vars, ops>>

\* question.update_record(field_id=field_id)
UpdateRecord(p) ==
    /\ proc[p].pc = "q_update_record"
    /\ dc_question' =
         [id \in DOMAIN dc_question |->
            IF id = proc[p].question.id
            THEN With(dc_question[id], [field_id |-> proc[p].field_id])
            ELSE dc_question[id]]
    /\ Return(p, "q_update_record")
    /\ UNCHANGED <<deployment_settings, dc_template, s3_table, s3_field,
                   uuid_time, l10n_vars, ops>>

(***************************************************************************)
(* The dynamic tables: every request of every session.                     *)
(***************************************************************************)
Init ==
    /\ deployment_settings \in [dc_mobile_data : {FALSE}, dc_mobile_inserts : BOOLEAN]
    /\ dc_template = <<>>
    /\ s3_table = <<>>
    /\ s3_field = <<>>
    /\ dc_question = <<>>
    /\ dc_question_l10n = <<>>
    /\ languages = [code \in {} |-> <<>>]
    /\ uuid_time = 1
    /\ proc = [p \in Procs |-> Idle]
    /\ ops = 0

SchemaStep(p, forms) ==
    \/ CreateTemplate(p)
    \/ CallTemplateOnaccept(p)
    \/ InsertTable(p)
    \/ InsertResponseIdField(p)
    \/ UpdateTemplate(p)
    \/ SaveQuestion(p, forms)
    \/ SelectQuestion(p)
    \/ UpdateField(p)
    \/ SelectTemplate(p)
    \/ InsertField(p)
    \/ UpdateRecord(p)

\* sessions racing each other
Next == \E p \in Procs : SchemaStep(p, RacingForms)

Spec == Init /\ [][Next]_vars

\* one request after the other
NextSeq == SchemaStep(1, QuestionForms)

SpecSeq == Init /\ [][NextSeq]_vars

(***************************************************************************)
(* Statements of dc_template_create_onaccept that fail.  The hook has no   *)
(* try/except: an exception of db.s3_field.insert or of the update of      *)
(* dc_template leaves the hook at that statement.                          *)
(***************************************************************************)
\* as InsertResponseIdFieldFails, with the exception swallowed
InsertResponseIdFieldFailsQuietly(p) ==
    /\ proc[p].pc = "t_insert_field"
    /\ Goto(p, With(proc[p], [pc |-> "t_update_template"]))
    /\ UNCHANGED <<deployment_settings, schema_vars, l10n_vars, ops>>

InsertResponseIdFieldFails(p) ==
    /\ proc[p].pc = "t_insert_field"
    /\ Raise(p, "t_insert_field", "Exception")
    /\ UNCHANGED <<deployment_settings, schema_vars, l10n_vars, ops>>

UpdateTemplateFails(p) ==
    /\ proc[p].pc = "t_update_template"
    /\ Raise(p, "t_update_template", "Exception")
    /\ UNCHANGED <<deployment_settings, schema_vars, l10n_vars, ops>>

\* one request after the other, over a database whose statements may fail
NextFailing ==
    \/ SchemaStep(1, QuestionForms)
    \/ InsertResponseIdFieldFails(1)
    \/ UpdateTemplateFails(1)

SpecFailing == Init /\ [][NextFailing]_vars

(***************************************************************************)
(* dc_question_l10n: saving a translation, then dc_question_l10n_onaccept. *)
(***************************************************************************)
Languages == {"fr", "de"}
BoundedSeq(S, n) == UNION {[1..k -> S] : k \in 0..n}
\* translations are typed in: lists of strings, or nothing
TranslatedValues == {v \in OptionValues : v.kind = "str"}
\* a JSON string in the place of the list of options
StringOptions == JStr("a1")
TranslatedOptions ==
    {None, StringOptions}
        \cup {JList(items) : items \in BoundedSeq(TranslatedValues, MaxLen)}

\* the translations that sessions racing each other submit
RacingTranslations ==
    {options_l10n \in TranslatedOptions :
        IsList(options_l10n) /\ options_l10n.items # <<>>}

SaveL10n(p, translated) ==
    /\ Accepts(p)
    /\ ops < MaxOps
    /\ \E options_l10n \in translated :
        \/ \* create
           /\ Len(dc_question_l10n) < MaxL10n
           /\ \E question_id \in DOMAIN dc_question, language \in Languages :
                dc_question_l10n' = Append(dc_question_l10n,
                    [question_id |-> question_id, language |-> language,
                     options_l10n |-> options_l10n])
           /\ Goto(p, [pc |-> "l_select", hook |-> "dc_question_l10n",
                       form_vars |-> [id |-> Len(dc_question_l10n) + 1]])
        \/ \* update
           \E id \in DOMAIN dc_question_l10n :
              /\ dc_question_l10n' = [dc_question_l10n EXCEPT
                                        ![id].options_l10n = options_l10n]
              /\ Goto(p, [pc |-> "l_select", hook |-> "dc_question_l10n",
                          form_vars |-> [id |-> id]])
    /\ ops' = ops + 1
    /\ UNCHANGED <<deployment_settings, schema_vars, languages>>

\* len() of a JSON value; None has none
\* len() and [i] are defined for a list and for a string, whose items are
\* its characters
HasLen(v) == v.kind \in {"list", "str"}
Items(v) ==
    IF v.kind = "list" THEN v.items
    ELSE [i \in 1..Len(v.s) |-> JStr(SubSeq(v.s, i, i))]
PyLen(v) == Len(Items(v))

\* s3_str: the str of a value
s3_str(v) ==
    CASE v.kind = "str" -> v.s
      [] v.kind = "num" -> ToString(v.n)
      [] v.kind = "None" -> "None"

\* as SelectL10n, without the test of the field_type
SelectL10nOfAnyType(p) ==
    /\ proc[p].pc = "l_select"
    /\ LET l10n == dc_question_l10n[proc[p].form_vars.id]
           question == [field_type |-> dc_question[l10n.question_id].field_type,
                        options |-> dc_question[l10n.question_id].options,
                        options_l10n |-> l10n.options_l10n,
                        language |-> l10n.language]
       IN  IF ~HasLen(question.options) \/ ~HasLen(question.options_l10n)
           THEN Raise(p, "l_len", "TypeError")
           ELSE IF PyLen(question.options) # PyLen(question.options_l10n)
           THEN \* T is not bound in the hook, and session.error is an
                \* attribute of the session's Storage, not a function: the
                \* statement raises NameError where no star import binds T
                \* and TypeError where one does
                \/ Raise(p, "l_mismatch", "NameError")
                \/ Raise(p, "l_mismatch", "TypeError")
           ELSE Goto(p, With(proc[p],
                    [pc |-> "l_read_dict",
                     options |-> question.options,
                     options_l10n |-> question.options_l10n,
                     len_options |-> PyLen(question.options),
                     language |-> question.language]))
    /\ UNCHANGED <<deployment_settings, schema_vars, l10n_vars, ops>>

\* select the translation joined with its question, compare the lengths
SelectL10n(p) ==
    /\ proc[p].pc = "l_select"
    /\ LET l10n == dc_question_l10n[proc[p].form_vars.id]
           question == [field_type |-> dc_question[l10n.question_id].field_type,
                        options |-> dc_question[l10n.question_id].options,
                        options_l10n |-> l10n.options_l10n,
                        language |-> l10n.language]
       IN  IF question.field_type # 6
           THEN Return(p, "l_not_options")
           ELSE IF ~HasLen(question.options) \/ ~HasLen(question.options_l10n)
           THEN Raise(p, "l_len", "TypeError")
           ELSE IF PyLen(question.options) # PyLen(question.options_l10n)
           THEN \* T is not bound in the hook, and session.error is an
                \* attribute of the session's Storage, not a function: the
                \* statement raises NameError where no star import binds T
                \* and TypeError where one does
                \/ Raise(p, "l_mismatch", "NameError")
                \/ Raise(p, "l_mismatch", "TypeError")
           ELSE Goto(p, With(proc[p],
                    [pc |-> "l_read_dict",
                     options |-> question.options,
                     options_l10n |-> question.options_l10n,
                     len_options |-> PyLen(question.options),
                     language |-> question.language]))
    /\ UNCHANGED <<deployment_settings, schema_vars, l10n_vars, ops>>

EmptyDict == [original \in {} |-> ""]

\* as ReadDict, never reading the file
ReadDictNever(p) ==
    /\ proc[p].pc = "l_read_dict"
    /\ Goto(p, With(proc[p], [pc |-> "l_add", translations |-> EmptyDict]))
    /\ UNCHANGED <<deployment_settings, schema_vars, l10n_vars, ops>>

\* read_dict(w2pfilename) if the file exists, else {}
ReadDict(p) ==
    /\ proc[p].pc = "l_read_dict"
    /\ Goto(p, With(proc[p],
                [pc |-> "l_add",
                 translations |->
                    IF proc[p].language \in DOMAIN languages
                    THEN languages[proc[p].language]
                    ELSE EmptyDict]))
    /\ UNCHANGED <<deployment_settings, schema_vars, l10n_vars, ops>>

\* translations[original] = translated
SetItem(translations, original, translated) ==
    [key \in DOMAIN translations \cup {original} |->
        IF key = original THEN translated ELSE translations[key]]

\* as AddOurs, without the test original != translated
RECURSIVE AddOursAlways(_, _, _, _, _)
AddOursAlways(translations, options, options_l10n, i, len_options) ==
    IF i > len_options THEN translations
    ELSE AddOursAlways(SetItem(translations, s3_str(Items(options)[i]),
                               s3_str(Items(options_l10n)[i])),
                       options, options_l10n, i + 1, len_options)

\* for i in range(i, len_options): the body of the loop "Add ours"
RECURSIVE AddOurs(_, _, _, _, _)
AddOurs(translations, options, options_l10n, i, len_options) ==
    IF i > len_options THEN translations
    ELSE LET original == s3_str(Items(options)[i])
             translated == s3_str(Items(options_l10n)[i])
         IN  AddOurs(IF original # translated
                     THEN SetItem(translations, original, translated)
                     ELSE translations,
                     options, options_l10n, i + 1, len_options)

AddTranslations(p) ==
    /\ proc[p].pc = "l_add"
    /\ Goto(p, With(proc[p],
                [pc |-> "l_write_dict",
                 translations |->
                    AddOurs(proc[p].translations, proc[p].options,
                            proc[p].options_l10n, 1, proc[p].len_options)]))
    /\ UNCHANGED <<deployment_settings, schema_vars, l10n_vars, ops>>

\* write_dict(w2pfilename, translations)
WriteDict(p) ==
    /\ proc[p].pc = "l_write_dict"
    /\ languages' =
         [code \in DOMAIN languages \cup {proc[p].language} |->
            IF code = proc[p].language
            THEN proc[p].translations
            ELSE languages[code]]
    /\ Return(p, "l_write_dict")
    /\ UNCHANGED <<deployment_settings, schema_vars, dc_question_l10n, ops>>

L10nStep(p, translated) ==
    \/ SaveL10n(p, translated)
    \/ SelectL10n(p)
    \/ ReadDict(p)
    \/ AddTranslations(p)
    \/ WriteDict(p)

(***************************************************************************)
(* The translations: a template with its questions is in place, every      *)
(* question has its field, and sessions save translations of the           *)
(* questions.  The translation files are absent at first, or hold what the *)
(* application was installed with.                                         *)
(***************************************************************************)
\* the questions that are translated: Options and Text
TranslatedForms ==
    {form \in [name : QuestionNames, field_type : {1, 6},
               options : {None, StringOptions, JList(<<JNum(1)>>),
                          JList(<<JStr("a"), JStr("1")>>)},
               require_not_empty : {FALSE}, comments : Tooltips] :
        form.options = None <=> form.field_type = 1}
Strings == {s3_str(v) : v \in OptionValues}
\* the contents of a translation file, and the files of languages/
Dicts == UNION {[originals -> Strings] : originals \in SUBSET Strings}
Files == UNION {[codes -> Dicts] : codes \in SUBSET Languages}

\* the database after the questions are made, with the given files
Translating(files) ==
    /\ deployment_settings = [dc_mobile_data |-> FALSE, dc_mobile_inserts |-> TRUE]
    /\ dc_template = <<[name |-> "Survey", table_id |-> 1]>>
    /\ s3_table = <<[title |-> "Survey", mobile_data |-> FALSE,
                     settings |-> TableSettings]>>
    /\ \E forms \in [QuestionIds -> TranslatedForms] :
        /\ dc_question =
             [id \in QuestionIds |->
                With(forms[id], [template_id |-> 1, field_id |-> id + 1])]
        /\ s3_field =
             [id \in 1..(MaxQuestions + 1) |->
                IF id = 1 THEN ResponseIdField(1)
                ELSE LET question == forms[id - 1]
                         mapped == MapFieldType(question)
                     IN  QuestionField(1, FieldName(id - 1), question,
                                       mapped.field_type, mapped.options)]
    /\ uuid_time = MaxQuestions + 1
    /\ dc_question_l10n = <<>>
    /\ languages \in files
    /\ proc = [p \in Procs |-> Idle]
    /\ ops = 0

InitL10n == Translating({[code \in {} |-> EmptyDict]})

\* sessions racing each other
NextL10n == \E p \in Procs : L10nStep(p, RacingTranslations)

SpecL10n == InitL10n /\ [][NextL10n]_vars

\* one request after the other
NextL10nSeq == L10nStep(1, TranslatedOptions)

SpecL10nSeq == InitL10n /\ [][NextL10nSeq]_vars

\* one request on its own, whatever the files hold
InitL10nOne == Translating(Files)

NextL10nOne ==
    \/ ops = 0 /\ SaveL10n(1, TranslatedOptions)
    \/ SelectL10n(1)
    \/ ReadDict(1)
    \/ AddTranslations(1)
    \/ WriteDict(1)

SpecL10nOne == InitL10nOne /\ [][NextL10nOne]_vars

\* sessions racing each other to edit questions that have their fields
NextEdits ==
    \E p \in Procs :
        \/ SaveQuestion(p, RacingForms)
        \/ SelectQuestion(p)
        \/ UpdateField(p)

SpecEdits == InitL10n /\ [][NextEdits]_vars

(***************************************************************************)
(* Properties of the dynamic fields.                                       *)
(***************************************************************************)
\* the fields made for questions: all but the response_id of each table
QuestionFields == {id \in DOMAIN s3_field : s3_field[id].name # "response_id"}
FieldOf(id) == {q \in DOMAIN dc_question : dc_question[q].field_id = id}
InHook(p, hook) == Running(p) /\ proc[p].hook = hook
NoQuestionHookRunning == \A p \in Procs : ~InHook(p, "dc_question")
\* p takes a step of its hook
Steps(p) == proc'[p] # proc[p] /\ Running(p)

\* C1: when dc_question_onaccept runs twice at once for one question that
\* has no field yet, exactly one dynamic field is created for the question:
\* once the hooks have returned, every field made for a question is the
\* field of exactly one question, none is a duplicate left without one.
C1_ConcurrentSyncCreatesOneField ==
    NoQuestionHookRunning =>
        \A id \in QuestionFields : Cardinality(FieldOf(id)) = 1

\* C3: running dc_question_onaccept again on a question that is not a Grid
\* leaves exactly one dynamic field for the question, and the question's
\* field_id after the second run is its field_id after the first: between
\* requests every question field belongs to exactly one question, a hook
\* that finds a field_id adds no field, and no step changes a field_id
\* that is set.
C3_RepeatedSyncKeepsOneField ==
    /\ [](NoQuestionHookRunning =>
            \A id \in QuestionFields : Cardinality(FieldOf(id)) = 1)
    /\ [][\A q \in DOMAIN dc_question :
            dc_question[q].field_id # 0 =>
              /\ dc_question'[q].field_id = dc_question[q].field_id
              /\ \A p \in Procs :
                    (InHook(p, "dc_question") /\ proc[p].form_vars.id = q)
                        => QuestionFields' = QuestionFields]_vars

\* a second run has returned after its update of the one field of the question
C3_Witness ==
    /\ Returned(1, "q_update_field")
    /\ Len(dc_question) = 1
    /\ dc_question[1].field_type # 9
    /\ QuestionFields = {dc_question[1].field_id}
    /\ ops = 3

\* C4: dc_template_create_onaccept called for a template whose table_id is
\* already set does nothing: no step of it changes s3_table, s3_field or
\* dc_template.
C4_SecondProvisionIsNoOp ==
    [][\A p \in Procs :
         (InHook(p, "dc_template") /\ Steps(p)
            /\ dc_template[proc[p].form_vars.id].table_id # 0)
         => UNCHANGED <<s3_table, s3_field, dc_template>>]_vars

\* C5: for a question whose field_type is 9 (Grid) dc_question_onaccept
\* neither inserts nor updates a row of s3_field and does not write the
\* question's field_id: its first step returns and changes no table, and no
\* request stands at a later statement of the hook with a Grid it has read.
C5_GridTouchesNoField ==
    /\ [](\A p \in Procs :
            proc[p].pc \in {"q_update_field", "q_select_template",
                            "q_insert_field", "q_update_record"}
                => proc[p].question.field_type # 9)
    /\ [][\A p \in Procs :
            (proc[p].pc = "q_select_question" /\ Steps(p)
                /\ dc_question[proc[p].form_vars.id].field_type = 9)
            => /\ proc'[p].pc = "done"
               /\ UNCHANGED <<s3_field, s3_table, dc_question, dc_template>>]_vars

\* the hook has returned for a Grid that has no field
C5_Witness ==
    \E p \in Procs :
        /\ Returned(p, "q_grid")
        /\ \E q \in DOMAIN dc_question :
              dc_question[q].field_type = 9 /\ dc_question[q].field_id = 0
        /\ QuestionFields = {}

(***************************************************************************)
(* Properties of the translation files.                                    *)
(***************************************************************************)
\* languages/<code>.py as a dictionary, empty when the file does not exist
File(code) == IF code \in DOMAIN languages THEN languages[code] ELSE EmptyDict
Max(S) == CHOOSE m \in S : \A x \in S : x <= m
\* the indexes whose original and translated option differ as strings
StrDiffers(options, options_l10n) ==
    {i \in 1..PyLen(options) :
        s3_str(Items(options)[i]) # s3_str(Items(options_l10n)[i])}
\* the indexes whose original and translated option differ as JSON values
ValueDiffers(options, options_l10n) ==
    {i \in 1..PyLen(options) : Items(options)[i] # Items(options_l10n)[i]}
\* every item of the list is a string
AllStr(list) == \A i \in 1..PyLen(list) : Items(list)[i].kind = "str"
\* `after` is `before` with, for every key some index of `indexes` has as its
\* original, the translation of the last such index, and nothing else changed
Overridden(before, after, options, options_l10n, indexes) ==
    /\ DOMAIN after \subseteq Strings
    /\ \A key \in Strings :
        LET ours == {i \in indexes : s3_str(Items(options)[i]) = key} IN
        IF ours # {}
        THEN /\ key \in DOMAIN after
             /\ after[key] = s3_str(Items(options_l10n)[Max(ours)])
        ELSE /\ key \in DOMAIN after <=> key \in DOMAIN before
             /\ key \in DOMAIN before => after[key] = before[key]
\* the translation row id is one the hook writes a file for
Translatable(id) ==
    LET l10n == dc_question_l10n[id]
        question == dc_question[l10n.question_id]
    IN  /\ question.field_type = 6
        /\ HasLen(question.options) /\ HasLen(l10n.options_l10n)
        /\ PyLen(question.options) = PyLen(l10n.options_l10n)
NoRequestRunning == \A p \in Procs : Free(p)

\* C2: when two runs of dc_question_l10n_onaccept for one language and
\* different questions interleave, the file they leave holds the entries of
\* both: every original either run adds is a key of the file, with a
\* translation one of the runs gave it.
C2_BothRunsPersist ==
    (/\ NoRequestRunning
     /\ ops = 2
     /\ Len(dc_question_l10n) = 2
     /\ dc_question_l10n[1].question_id # dc_question_l10n[2].question_id
     /\ dc_question_l10n[1].language = dc_question_l10n[2].language
     /\ Translatable(1) /\ Translatable(2))
    => LET file == File(dc_question_l10n[1].language)
           Options(id) == dc_question[dc_question_l10n[id].question_id].options
           Added(id) == {<<s3_str(Items(Options(id))[i]),
                           s3_str(Items(dc_question_l10n[id].options_l10n)[i])>> :
                            i \in StrDiffers(Options(id),
                                             dc_question_l10n[id].options_l10n)}
       IN  \A pair \in Added(1) \cup Added(2) :
              /\ pair[1] \in DOMAIN file
              /\ \E other \in Added(1) \cup Added(2) :
                    other[1] = pair[1] /\ file[pair[1]] = other[2]

\* C6: for a translation of an Options question whose options_l10n has
\* another length than the question's options, the hook ends at the
\* comparison having reported the mismatch to the session, and the
\* translation files are what they were.
C6_MismatchIsReported ==
    [][\A p \in Procs :
        (/\ proc[p].pc = "l_select" /\ Steps(p)
         /\ LET l10n == dc_question_l10n[proc[p].form_vars.id]
                question == dc_question[l10n.question_id]
            IN  /\ question.field_type = 6
                /\ HasLen(question.options) /\ HasLen(l10n.options_l10n)
                /\ PyLen(question.options) # PyLen(l10n.options_l10n))
        => /\ proc'[p].pc = "done"
           /\ proc'[p].at = "l_mismatch"
           /\ proc'[p].raised = ""
           /\ proc'[p].session_error =
                "Number of Translated Options don't match original!"
           /\ UNCHANGED languages]_vars

\* C7: every stored translation of an Options question has as many
\* options_l10n as the question has options, once the request that saved it
\* has ended: a save that breaks this is rejected.
C7_StoredTranslationsMatch ==
    NoRequestRunning =>
        \A id \in DOMAIN dc_question_l10n :
            LET l10n == dc_question_l10n[id]
                question == dc_question[l10n.question_id]
            IN  (/\ question.field_type = 6
                 /\ HasLen(question.options) /\ HasLen(l10n.options_l10n))
                => PyLen(question.options) = PyLen(l10n.options_l10n)

\* C8: for option strings, the loop sets translations[original] to the
\* translated option for every index where the two differ and sets nothing
\* for an index where they are equal; for other JSON values the same holds
\* of the strings s3_str makes of them.
C8_AddsPairsThatDiffer ==
    [][\A p \in Procs :
        (proc[p].pc = "l_add" /\ Steps(p))
        => /\ Overridden(proc[p].translations, proc'[p].translations,
                         proc[p].options, proc[p].options_l10n,
                         StrDiffers(proc[p].options, proc[p].options_l10n))
           /\ (AllStr(proc[p].options) /\ AllStr(proc[p].options_l10n))
                => Overridden(proc[p].translations, proc'[p].translations,
                              proc[p].options, proc[p].options_l10n,
                              ValueDiffers(proc[p].options, proc[p].options_l10n))]_vars

\* the loop has added "a" -> "1" and skipped the option "1" translated as "1"
C8_Witness ==
    \E p \in Procs :
        /\ proc[p].pc = "l_write_dict"
        /\ proc[p].options = JList(<<JStr("a"), JStr("1")>>)
        /\ proc[p].options_l10n = JList(<<JStr("1"), JStr("1")>>)
        /\ proc[p].translations = [key \in {"a"} |-> "1"]

\* C9: a run of the hook on its own leaves the file of the language equal
\* to the file it found, overridden by the pairs that differ (as strings):
\* every key that is not the original of such a pair keeps its translation,
\* and the files of the other languages stay as they are.
C9_MergesIntoTheFile ==
    [][\A p \in Procs :
        (proc[p].pc = "l_write_dict" /\ Steps(p))
        => /\ DOMAIN languages' = DOMAIN languages \cup {proc[p].language}
           /\ \A code \in DOMAIN languages \ {proc[p].language} :
                languages'[code] = languages[code]
           /\ Overridden(File(proc[p].language), languages'[proc[p].language],
                         proc[p].options, proc[p].options_l10n,
                         StrDiffers(proc[p].options, proc[p].options_l10n))]_vars

\* a run for the options [1] translated as ["a"] has added "1" -> "a" to a
\* file that held "a" -> "1", a key that is no option of its question, and
\* has left the file of the other language as it was
C9_Witness ==
    /\ Returned(1, "l_write_dict")
    /\ Len(dc_question_l10n) = 1
    /\ dc_question[dc_question_l10n[1].question_id].options = JList(<<JNum(1)>>)
    /\ dc_question_l10n[1].options_l10n = JList(<<JStr("a")>>)
    /\ dc_question_l10n[1].language = "fr"
    /\ languages = [code \in Languages |->
                        IF code = "fr"
                        THEN [key \in {"a", "1"} |-> IF key = "a" THEN "1" ELSE "a"]
                        ELSE [key \in {"a"} |-> "a"]]

\* C10: no step removes a key from a translation file, or a file.
C10_KeysNeverRemoved ==
    [][\A code \in DOMAIN languages :
        /\ code \in DOMAIN languages'
        /\ DOMAIN languages[code] \subseteq DOMAIN languages'[code]]_vars

(***************************************************************************)
(* Properties of the links between templates, questions, tables and fields.*)
(***************************************************************************)
\* the codes the if/elif chain of dc_question_onaccept maps to a field type
MappedTypes == {1, 2, 4, 5, 6, 7, 8}

\* C11: when no request is running, a question has no field_id exactly when
\* it is a Grid (9) or its hook never got to make the field (a type the hook
\* does not map); no Grid question holds a field_id.
C11_FieldIdNullIffGrid ==
    NoRequestRunning =>
        \A q \in DOMAIN dc_question :
            dc_question[q].field_id = 0
                <=> dc_question[q].field_type \notin MappedTypes

\* C12: once a question has a field_id, no step gives it another value.
C12_FieldIdWrittenOnce ==
    [][\A q \in DOMAIN dc_question :
        dc_question[q].field_id # 0
            => dc_question'[q].field_id = dc_question[q].field_id]_vars

\* C13: once a template has a table_id, no step gives it another value, and
\* the table_id is the id of a row of s3_table.
C13_TableIdImmutable ==
    /\ [](\A t \in DOMAIN dc_template :
            dc_template[t].table_id # 0
                => dc_template[t].table_id \in DOMAIN s3_table)
    /\ [][\A t \in DOMAIN dc_template :
            dc_template[t].table_id # 0
                => dc_template'[t].table_id = dc_template[t].table_id]_vars

\* C17: no row of s3_field has an empty table_id: the hook makes no field
\* for a question whose template has no table yet.
C17_NoFieldWithoutTable ==
    \A f \in DOMAIN s3_field : s3_field[f].table_id # 0

(***************************************************************************)
(* Properties of the field a question is given.                            *)
(***************************************************************************)
\* p runs the statement that inserts or updates the field of its question
WritesField(p) ==
    proc[p].pc \in {"q_update_field", "q_insert_field"} /\ Steps(p)
\* the row of s3_field that statement leaves
FieldWritten(p) ==
    IF proc[p].pc = "q_update_field"
    THEN s3_field'[proc[p].question.field_id]
    ELSE s3_field'[Len(s3_field')]

\* C14: the field_type and options the hook gives s3_field.insert and
\* update follow the table: 1 string, 2 integer, 4 boolean, 7 date,
\* 8 datetime, all without options, and 6 string with the question's options.
C14_TypesFollowTheTable ==
    [][\A p \in Procs :
        WritesField(p) =>
            LET question == dc_question[proc[p].form_vars.id]
                field == FieldWritten(p)
                Gives(field_type, options) ==
                    field.field_type = field_type /\ field.options = options
            IN  /\ question.field_type = 1 => Gives("string", None)
                /\ question.field_type = 2 => Gives("integer", None)
                /\ question.field_type = 4 => Gives("boolean", None)
                /\ question.field_type = 6 => Gives("string", question.options)
                /\ question.field_type = 7 => Gives("date", None)
                /\ question.field_type = 8 => Gives("datetime", None)]_vars

\* an Options question and a Date/Time question have their fields
C14_Witness ==
    /\ NoRequestRunning
    /\ \E q1, q2 \in DOMAIN dc_question :
        /\ dc_question[q1].field_type = 6 /\ dc_question[q2].field_type = 8
        /\ dc_question[q1].field_id \in QuestionFields
        /\ dc_question[q2].field_id \in QuestionFields
        /\ s3_field[dc_question[q1].field_id].options =
                JList(<<JStr("a"), JNum(1)>>)
        /\ s3_field[dc_question[q2].field_id].field_type = "datetime"

\* C15: for a question of type 5 the hook gives the field the type string
\* and the options T("Yes"), T("No"), T("Don't Know"), whatever the
\* question's own options are.
C15_YesNoDontKnowIsFixed ==
    [][\A p \in Procs :
        (WritesField(p) /\ dc_question[proc[p].form_vars.id].field_type = 5)
        => /\ FieldWritten(p).field_type = "string"
           /\ FieldWritten(p).options =
                JList(<<T("Yes"), T("No"), T("Don't Know")>>)]_vars

\* two questions of type 5, one with options of its own and one without,
\* have fields with the same type and options
C15_Witness ==
    /\ NoRequestRunning
    /\ \E q1, q2 \in DOMAIN dc_question :
        /\ dc_question[q1].field_type = 5 /\ dc_question[q2].field_type = 5
        /\ dc_question[q1].options = None /\ dc_question[q2].options # None
        /\ dc_question[q1].field_id \in QuestionFields
        /\ dc_question[q2].field_id \in QuestionFields
        /\ dc_question[q1].field_id # dc_question[q2].field_id
        /\ s3_field[dc_question[q1].field_id].options =
                s3_field[dc_question[q2].field_id].options
        /\ s3_field[dc_question[q1].field_id].field_type =
                s3_field[dc_question[q2].field_id].field_type

\* C16: for a question whose field_type is none of 1, 2, 4, 5, 6, 7, 8, 9
\* the hook ends with NotImplementedError at the type chain, and no field,
\* table or question is written.
C16_UnmappedTypeRaises ==
    /\ [](\A p \in Procs :
            proc[p].pc \in {"q_update_field", "q_select_template",
                            "q_insert_field", "q_update_record"}
                => proc[p].question.field_type \in {1, 2, 4, 5, 6, 7, 8})
    /\ [][\A p \in Procs :
            (/\ proc[p].pc = "q_select_question" /\ Steps(p)
             /\ dc_question[proc[p].form_vars.id].field_type
                    \notin {1, 2, 4, 5, 6, 7, 8, 9})
            => /\ proc'[p].pc = "done"
               /\ proc'[p].raised = "NotImplementedError"
               /\ UNCHANGED <<s3_field, s3_table, dc_question, dc_template>>]_vars

\* a question that has a string field was saved with type 3: the hook has
\* raised, the question keeps its field_id and the field its type
C16_Witness ==
    /\ proc[1].pc = "done" /\ proc[1].raised = "NotImplementedError"
    /\ Len(dc_question) = 1
    /\ dc_question[1].field_type = 3
    /\ dc_question[1].field_id \in QuestionFields
    /\ s3_field[dc_question[1].field_id].field_type = "string"

(***************************************************************************)
(* Properties of dc_template_create_onaccept.                              *)
(***************************************************************************)
\* C18: when the insert of the response_id field or the update of the
\* template takes no effect, the hook ends there with the exception: it
\* does not go on, the table it has inserted is still a row of s3_table,
\* and the template is as it was.
C18_FailureAfterInsertTableIsRaised ==
    [][\A p \in Procs :
        (/\ Steps(p)
         /\ \/ proc[p].pc = "t_insert_field" /\ s3_field' = s3_field
            \/ proc[p].pc = "t_update_template" /\ dc_template' = dc_template)
        => /\ proc'[p].pc = "done"
           /\ proc'[p].at = proc[p].pc
           /\ proc'[p].raised # ""
           /\ s3_table' = s3_table
           /\ proc[p].table_id \in DOMAIN s3_table'
           /\ UNCHANGED <<dc_template, s3_field>>]_vars

\* the update of the template has failed: table 1 and its response_id
\* field exist, the template has no table_id
C18_Witness ==
    /\ proc[1].pc = "done" /\ proc[1].hook = "dc_template"
    /\ proc[1].at = "t_update_template" /\ proc[1].raised = "Exception"
    /\ Len(s3_table) = 1 /\ Len(s3_field) = 1
    /\ Len(dc_template) = 1 /\ dc_template[1].table_id = 0

\* C19: when the hook of a template without table_id ends, the template's
\* table_id is the table the hook has inserted, titled as the template, and
\* the fields of that table are one: response_id, a reference to
\* dc_response, required, the component key, component_multiple False.  The
\* hook inserts a table in its first statement only.
C19_ProvisionMakesTableAndLink ==
    [][\A p \in Procs :
        (InHook(p, "dc_template") /\ Steps(p))
        => /\ Len(s3_table') =
                Len(s3_table) + IF proc[p].pc = "t_insert_table" THEN 1 ELSE 0
           /\ (/\ proc[p].pc = "t_update_template"
               /\ dc_template[proc[p].form_vars.id].table_id = 0)
              => LET table_id == dc_template'[proc[p].form_vars.id].table_id
                     fields == {f \in DOMAIN s3_field' :
                                    s3_field'[f].table_id = table_id}
                 IN  /\ Returned(p, "t_update_template")'
                     /\ table_id = Len(s3_table')
                     /\ s3_table'[table_id].title =
                            dc_template[proc[p].form_vars.id].name
                     /\ \A t \in DOMAIN dc_template' :
                            dc_template'[t].table_id = table_id
                                => t = proc[p].form_vars.id
                     /\ Cardinality(fields) = 1
                     /\ \A f \in fields :
                            /\ s3_field'[f].name = "response_id"
                            /\ s3_field'[f].field_type = "reference dc_response"
                            /\ s3_field'[f].require_not_empty = TRUE
                            /\ s3_field'[f].component_key = TRUE
                            /\ s3_field'[f].settings.component_multiple = FALSE]_vars

\* the hook of the first template has ended: one table, one field, linked
C19_Witness ==
    /\ Returned(1, "t_update_template")
    /\ Len(dc_template) = 1 /\ dc_template[1].table_id = 1
    /\ Len(s3_table) = 1
    /\ Len(s3_field) = 1 /\ s3_field[1].name = "response_id"
    /\ ops = 1

\* C20: the update of the field of a question that has a field_id sets
\* label, field_type, options, require_not_empty and comments to what the
\* question holds: options None for the types without options, also when the
\* field had options; nothing else of s3_field changes.
C20_UpdateOverwritesTheField ==
    [][\A p \in Procs :
        (proc[p].pc = "q_update_field" /\ Steps(p))
        => LET question == dc_question[proc[p].form_vars.id]
               before == s3_field[question.field_id]
               after == s3_field'[question.field_id]
               FieldType == [t \in {1, 2, 4, 5, 6, 7, 8} |->
                                CASE t \in {1, 5, 6} -> "string"
                                  [] t = 2 -> "integer"
                                  [] t = 4 -> "boolean"
                                  [] t = 7 -> "date"
                                  [] t = 8 -> "datetime"]
           IN  /\ Returned(p, "q_update_field")'
               /\ question.field_type \in DOMAIN FieldType
               /\ after.label = question.name
               /\ after.field_type = FieldType[question.field_type]
               /\ after.options =
                    CASE question.field_type = 6 -> question.options
                      [] question.field_type = 5 ->
                            JList(<<T("Yes"), T("No"), T("Don't Know")>>)
                      [] OTHER -> None
               /\ after.require_not_empty = question.require_not_empty
               /\ after.comments = question.comments
               /\ after.name = before.name /\ after.table_id = before.table_id
               /\ \A f \in DOMAIN s3_field \ {question.field_id} :
                    s3_field'[f] = s3_field[f]
               /\ dc_question' = dc_question]_vars

\* a question saved as Text or Number whose field still has the options it
\* was given as an Options question: the hook is at the update
C20_Witness ==
    /\ proc[1].pc = "q_update_field"
    /\ dc_question[proc[1].form_vars.id].field_type \in {1, 2}
    /\ s3_field[dc_question[proc[1].form_vars.id].field_id].options =
            JList(<<JStr("a"), JNum(1)>>)

(***************************************************************************)
(* Properties of the field names.                                          *)
(***************************************************************************)
\* C21: no two fields of one table have the same name (the names made for
\* questions differ from each other and from response_id), and no step
\* changes the name of a field.
C21_NamesUniqueAndStable ==
    /\ [](\A f, g \in DOMAIN s3_field :
            (f # g /\ s3_field[f].table_id = s3_field[g].table_id)
                => s3_field[f].name # s3_field[g].name)
    /\ [][\A f \in DOMAIN s3_field :
            /\ f \in DOMAIN s3_field'
            /\ s3_field'[f].name = s3_field[f].name]_vars

\* table 1 holds response_id and the fields of two questions
C21_Witness ==
    /\ NoRequestRunning
    /\ Len(dc_question) = 2
    /\ dc_question[1].field_id \in QuestionFields
    /\ dc_question[2].field_id \in QuestionFields
    /\ dc_question[1].field_id # dc_question[2].field_id
    /\ s3_field[dc_question[1].field_id].table_id = 1
    /\ s3_field[dc_question[2].field_id].table_id = 1
    /\ \E f \in DOMAIN s3_field :
        s3_field[f].name = "response_id" /\ s3_field[f].table_id = 1

(***************************************************************************)
(* Properties of translations of questions without options.                *)
(***************************************************************************)
\* C22: for a translation of a question whose field_type is not 6 the hook
\* returns at the test of the type, without exception or error message, and
\* no translation file changes, whatever options_l10n holds; the hook never
\* reads or writes a file for such a translation.
C22_NotOptionsWritesNothing ==
    /\ [](\A p \in Procs :
            proc[p].pc \in {"l_read_dict", "l_add", "l_write_dict"}
                => dc_question[dc_question_l10n[proc[p].form_vars.id].question_id]
                        .field_type = 6)
    /\ [][\A p \in Procs :
            (/\ proc[p].pc = "l_select" /\ Steps(p)
             /\ dc_question[dc_question_l10n[proc[p].form_vars.id].question_id]
                    .field_type # 6)
            => /\ Returned(p, "l_not_options")'
               /\ proc'[p].session_error = ""
               /\ UNCHANGED <<languages, dc_question_l10n, schema_vars>>]_vars

\* the hook has returned for a translation with two options of a Text
\* question, and the file of its language holds what it held
C22_Witness ==
    /\ Returned(1, "l_not_options")
    /\ Len(dc_question_l10n) = 1
    /\ dc_question[dc_question_l10n[1].question_id].field_type = 1
    /\ dc_question_l10n[1].options_l10n = JList(<<JStr("a"), JStr("1")>>)
    /\ dc_question_l10n[1].language = "fr"
    /\ languages = [code \in {"fr"} |-> [key \in {"1"} |-> "a"]]

(***************************************************************************)
(* Properties of edits of one question by two sessions.                    *)
(***************************************************************************)
\* the field holds what the hook derives from the question
Mirrors(field, question) ==
    /\ field.label = question.name
    /\ field.field_type =
            CASE question.field_type \in {1, 5, 6} -> "string"
              [] question.field_type = 2 -> "integer"
              [] question.field_type = 4 -> "boolean"
              [] question.field_type = 7 -> "date"
              [] question.field_type = 8 -> "datetime"
    /\ field.options =
            CASE question.field_type = 6 -> question.options
              [] question.field_type = 5 ->
                    JList(<<T("Yes"), T("No"), T("Don't Know")>>)
              [] OTHER -> None
    /\ field.require_not_empty = question.require_not_empty
    /\ field.comments = question.comments

\* C23: once the hooks of all edits of a question have ended, the field of
\* the question holds what is derived from the question as it is stored: a
\* hook that has read an older state of the question does not overwrite the
\* update of the hook that has read the newer one.
C23_FieldMirrorsFinalQuestion ==
    NoRequestRunning =>
        \A q \in DOMAIN dc_question :
            (/\ dc_question[q].field_type \in MappedTypes
             /\ dc_question[q].field_id \in DOMAIN s3_field)
            => Mirrors(s3_field[dc_question[q].field_id], dc_question[q])

(***************************************************************************)
(* Properties of what a question's hook touches.                           *)
(***************************************************************************)
\* C24: the field of every question that has a field_id belongs to the
\* table its template has as table_id.
C24_FieldIsInTemplatesTable ==
    \A q \in DOMAIN dc_question :
        dc_question[q].field_id \in DOMAIN s3_field
            => s3_field[dc_question[q].field_id].table_id =
                    dc_template[dc_question[q].template_id].table_id

\* C25: a step of dc_question_onaccept for a question leaves the other
\* questions, the fields of the other questions, every response_id field,
\* the templates, the tables and the translation files as they are; of its
\* own question it writes at most field_id, and it adds at most one field.
C25_HookTouchesOwnFieldOnly ==
    [][\A p \in Procs :
        (InHook(p, "dc_question") /\ Steps(p))
        => LET own == proc[p].form_vars.id IN
           /\ DOMAIN dc_question' = DOMAIN dc_question
           /\ \A q \in DOMAIN dc_question \ {own} :
                dc_question'[q] = dc_question[q]
           /\ dc_question'[own] =
                With(dc_question[own], [field_id |-> dc_question'[own].field_id])
           /\ Len(s3_field) <= Len(s3_field') /\ Len(s3_field') <= Len(s3_field) + 1
           /\ \A f \in DOMAIN s3_field :
                (\/ s3_field[f].name = "response_id"
                 \/ \E q \in DOMAIN dc_question \ {own} :
                        dc_question[q].field_id = f)
                => s3_field'[f] = s3_field[f]
           /\ UNCHANGED <<dc_template, s3_table, languages, dc_question_l10n>>]_vars

\* the hook of the second question has made and linked its field; the first
\* question has its field and the table its response_id
C25_Witness ==
    /\ Returned(1, "q_update_record")
    /\ Len(dc_question) = 2
    /\ dc_question[1].field_id = 2 /\ dc_question[2].field_id = 3
    /\ Len(s3_field) = 3 /\ s3_field[1].name = "response_id"
    /\ dc_template[1].table_id = 1

====
